---- MODULE Spec2Model ----
(***************************************************************************)
(* Assessment-timetable scheduler (schedule_app): the configuration, the   *)
(* precheck, and the three solver slices built on a CP-SAT backend.        *)
(*                                                                         *)
(* Lists are sequences; a Python index i (0-based) is position i+1.        *)
(* Ids are the tuples <<"TS",i>>, <<"L",i>>, <<"S",i>>, <<"P",i>>; the     *)
(* empty tuple <<>> is the empty id "".  An Optional value is the empty set   *)
(* (None) or a singleton.  Dates are                                       *)
(* day numbers (the code only compares date strings for equality).         *)
(* The CP-SAT backend is modelled by what it guarantees: a returned        *)
(* valuation satisfies every posted constraint, OPTIMAL valuations         *)
(* minimise the objective, and the time limit can end the search early.    *)
(***************************************************************************)
EXTENDS Integers, Sequences, FiniteSets, TLC

\* ------------------------------------------------------------------------
\* Bounds of the model
MaxT == 2       \* timeslots in a configuration
MaxL == 2       \* lecturers
MaxP == 2       \* projects
MaxR == 2       \* rooms

VARIABLES cfg, pc, slice, raised, result, level,
          doc, loaded, exit_code, index, grid, ops
vars == <<cfg, pc, slice, raised, result, level, doc, loaded, exit_code, index, grid, ops>>
\* the file and the command-line driver; the index; the editor
ioVars == <<doc, loaded, exit_code>>
uiVars == <<grid, ops>>

\* ------------------------------------------------------------------------
\* Small helpers
NoId == <<>>            \* the empty string used as "no id"
None == {}              \* Python's None in an Optional field
Some(v) == {v}          \* a present Optional value
Range(n) == 0 .. (n - 1)
At(list, i) == list[i + 1]
MaxOf(S) == CHOOSE m \in S : \A n \in S : n <= m
MinOf(S) == CHOOSE m \in S : \A n \in S : m <= n
IdsOf(list) == {list[i].id : i \in DOMAIN list}

\* ------------------------------------------------------------------------
\* models.py

\* SolverParams(): the dataclass declares max_time_in_seconds and
\* num_search_workers only; num_workers is an attribute an instance has
\* only after something assigned it.
SolverParams == [max_time_in_seconds |-> 10, num_search_workers |-> 8]
\* ConstraintsTab.write_back / a caller: c.solver.num_workers = n
WithNumWorkers(sp, n) == [a \in (DOMAIN sp) \cup {"num_workers"} |->
                             IF a = "num_workers" THEN n ELSE sp[a]]
HasAttr(obj, a) == a \in DOMAIN obj

\* Config.get_lecturer: the first lecturer with this id, or None
get_lecturer(c, lid) ==
    LET hits == {i \in DOMAIN c.lecturers : c.lecturers[i].id = lid}
    IN  IF hits = {} THEN None ELSE Some(c.lecturers[MinOf(hits)])

\* ------------------------------------------------------------------------
\* solver/precheck.py

\* {item.id: i for i, item in enumerate(items)}: a later duplicate wins
IdToIdx(items) ==
    [id \in IdsOf(items) |-> MaxOf({i \in DOMAIN items : items[i].id = id}) - 1]

build_index(c) ==
    [slot_id_to_idx     |-> IdToIdx(c.timeslots),
     lecturer_id_to_idx |-> IdToIdx(c.lecturers),
     student_id_to_idx  |-> IdToIdx(c.students),
     project_id_to_idx  |-> IdToIdx(c.projects)]

\* The error list of precheck, as the set of its entries (ensure_ok only
\* asks whether it is empty).
precheck_errors(c) ==
    LET idx         == build_index(c)
        capacity    == c.constraints.rooms * Len(c.timeslots)
        known_slots == DOMAIN idx.slot_id_to_idx
        must        == c.constraints.must_include_supervisor
        Proj(i)     == c.projects[i]
        Sup(i)      == Proj(i).supervisor_lecturer_id
        Known(i)    == Sup(i) \in DOMAIN idx.lecturer_id_to_idx
    IN  (IF capacity < Len(c.projects) THEN {<<"capacity">>} ELSE {})
        \cup (IF c.constraints.panel_size > Len(c.lecturers)
              THEN {<<"panel_size">>} ELSE {})
        \cup {<<"no_supervisor", Proj(i).id>> : i \in {j \in DOMAIN c.projects :
                   must /\ Sup(j) = NoId}}
        \cup {<<"unknown_supervisor", Proj(i).id>> : i \in {j \in DOMAIN c.projects :
                   must /\ Sup(j) # NoId /\ ~Known(j)}}
        \cup {<<"supervisor_no_slots", Proj(i).id>> : i \in {j \in DOMAIN c.projects :
                   /\ must /\ Sup(j) # NoId /\ Known(j)
                   /\ \E sup \in get_lecturer(c, Sup(j)) : sup.available_slot_ids = {}}}
        \cup {<<"unknown_student", Proj(i).id>> : i \in {j \in DOMAIN c.projects :
                   \E sid \in Proj(j).student_ids :
                       sid \notin DOMAIN idx.student_id_to_idx}}
        \cup {<<"lecturer_unknown_slots", c.lecturers[i].id>> :
                   i \in {j \in DOMAIN c.lecturers :
                       ~(c.lecturers[j].available_slot_ids \subseteq known_slots)}}
        \cup {<<"student_unknown_slots", c.students[i].id>> :
                   i \in {j \in DOMAIN c.students :
                       ~(c.students[j].unavailable_slot_ids \subseteq known_slots)}}
        \cup (IF c.constraints.lunch_slot_ids \subseteq known_slots
              THEN {} ELSE {<<"lunch_unknown_slots">>})

\* ensure_ok raises PrecheckError iff precheck returned errors
ensure_ok_raises(c) == precheck_errors(c) # {}

\* ------------------------------------------------------------------------
\* solver/result.py

ScheduleEntry(project_id, timeslot_id, room, panel) ==
    [project_id |-> project_id, timeslot_id |-> timeslot_id, room |-> room,
     panel_lecturer_ids |-> panel]

\* SolveResult(status, objective_value=None, entries=[], diagnostics=[], stats={})
SolveResult(status, objective_value, entries, diagnostics, stats) ==
    [status |-> status, objective_value |-> objective_value, entries |-> entries,
     diagnostics |-> diagnostics, stats |-> stats]
NoStats == [k \in {} |-> 0]
\* the value of `result` while no call has returned one
NoResult == SolveResult("", None, <<>>, <<>>, NoStats)

\* ------------------------------------------------------------------------
\* The CP-SAT backend (ortools.sat.python.cp_model), as the slices use it

CP_UNKNOWN       == 0
CP_MODEL_INVALID == 1
CP_FEASIBLE      == 2
CP_INFEASIBLE    == 3
CP_OPTIMAL       == 4

\* _status_str: a four-entry table with default "UNKNOWN"
_status_str(s) ==
    CASE s = CP_OPTIMAL       -> "OPTIMAL"
      [] s = CP_FEASIBLE      -> "FEASIBLE"
      [] s = CP_INFEASIBLE    -> "INFEASIBLE"
      [] s = CP_MODEL_INVALID -> "MODEL_INVALID"
      [] OTHER                -> "UNKNOWN"

\* solver.solve(model): what the backend may answer for a model whose
\* satisfying valuations, each with its objective value, are scored.
\* Parameters the backend rejects (a negative worker count) give
\* MODEL_INVALID; the time limit may stop the search at any point, with the
\* best valuation found so far (FEASIBLE) or none (UNKNOWN).
SolverAnswers(scored, num_workers) ==
    IF num_workers < 0
    THEN {[code |-> CP_MODEL_INVALID, v |-> <<>>, objective_value |-> 0]}
    ELSE {[code |-> CP_UNKNOWN, v |-> <<>>, objective_value |-> 0]}
         \cup (IF scored = {}
               THEN {[code |-> CP_INFEASIBLE, v |-> <<>>, objective_value |-> 0]}
               ELSE LET best == MinOf({s.obj : s \in scored})
                    IN  {[code |-> CP_OPTIMAL, v |-> s.v, objective_value |-> s.obj] :
                            s \in {w \in scored : w.obj = best}}
                        \cup {[code |-> CP_FEASIBLE, v |-> s.v, objective_value |-> s.obj] :
                                 s \in scored})

\* ------------------------------------------------------------------------
\* Model dimensions and the constraints shared by the slices

NumP(c) == Len(c.projects)
NumT(c) == Len(c.timeslots)
NumL(c) == Len(c.lecturers)
NumR(c) == c.constraints.rooms
Cells(c) == Range(NumT(c)) \X Range(NumR(c))

\* x[p] is the set of <<t,r>> with x[p,t,r] = 1, y[p] the set of l with
\* y[p,l] = 1, z[p] the set of <<l,t,r>> with z[p,l,t,r] = 1.
XVal(xp, t, r) == IF <<t, r>> \in xp THEN 1 ELSE 0
YVal(yp, l)    == IF l \in yp THEN 1 ELSE 0

\* (variant: the sum bounded by 1 instead of fixed to 1)
EachProjectAtMostOnce(c, xp) == Cardinality(xp) <= 1

\* model.add(sum(x[p,t,r] for t for r) == 1)
EachProjectOnce(c, xp) == Cardinality(xp) = 1
XRows(c) == {xp \in SUBSET Cells(c) : EachProjectOnce(c, xp)}

\* (variant: at-most-one taken over the rooms of one project and slot
\* instead of over the projects of one slot and room)
RoomCapacityOverRooms(c, x) ==
    \A p \in DOMAIN x : \A t \in Range(NumT(c)) :
        Cardinality({r \in Range(NumR(c)) : <<t, r>> \in x[p]}) <= 1

\* model.add_at_most_one(x[p,t,r] for p) for every (t, r)
RoomCapacity(c, x) ==
    \A cell \in Cells(c) : Cardinality({p \in DOMAIN x : cell \in x[p]}) <= 1

\* blocked: the union of the unavailable slots of the project's students
Blocked(c, p) ==
    LET idx == build_index(c)
    IN  UNION {At(c.students, idx.student_id_to_idx[sid]).unavailable_slot_ids :
                   sid \in At(c.projects, p).student_ids}

\* (variant: the blocked slot is closed in the first room only)
StudentUnavailabilityFirstRoom(c, x) ==
    LET idx == build_index(c)
    IN  \A p \in DOMAIN x : \A slot_id \in Blocked(c, p) :
            XVal(x[p], idx.slot_id_to_idx[slot_id], 0) = 0

\* model.add(x[p_i,t,r] == 0) for every blocked slot and every room
StudentUnavailability(c, x) ==
    LET idx == build_index(c)
    IN  \A p \in DOMAIN x : \A slot_id \in Blocked(c, p) : \A r \in Range(NumR(c)) :
            XVal(x[p], idx.slot_id_to_idx[slot_id], r) = 0

\* (variant: the bound posted for the first room only)
LastTBoundFirstRoom(c, x, last_t) ==
    \A p \in DOMAIN x : \A t \in Range(NumT(c)) :
        XVal(x[p], t, 0) = 1 => last_t >= t

\* last_t = new_int_var(0, max(T-1, 0)); add(last_t >= t).only_enforce_if(x[p,t,r])
LastTDomain(c) == 0 .. (IF NumT(c) - 1 > 0 THEN NumT(c) - 1 ELSE 0)
LastTBound(c, x, last_t) ==
    \A p \in DOMAIN x : \A cell \in Cells(c) :
        XVal(x[p], cell[1], cell[2]) = 1 => last_t >= cell[1]
LastTVals(c, x) == {lt \in LastTDomain(c) : LastTBound(c, x, lt)}

\* The <<p,t,r>> triples in the order of "for p ... for t ... for r"
Triples(c) ==
    LET T == NumT(c)
        R == NumR(c)
    IN  [i \in 1 .. (NumP(c) * T * R) |->
            <<(i - 1) \div (T * R), ((i - 1) \div R) % T, (i - 1) % R>>]

\* ------------------------------------------------------------------------
\* solver/slice1.py

Slice1Valuations(c) ==
    LET xs == {x \in [Range(NumP(c)) -> XRows(c)] :
                   RoomCapacity(c, x) /\ StudentUnavailability(c, x)}
    IN  UNION {{[x |-> x, last_t |-> lt] : lt \in LastTVals(c, x)} : x \in xs}

Slice1Objective(v) == v.last_t

Slice1Entries(c, v) ==
    LET Set(tr) == XVal(v.x[tr[1]], tr[2], tr[3]) = 1
        hit     == SelectSeq(Triples(c), Set)
    IN  [i \in DOMAIN hit |->
            ScheduleEntry(At(c.projects, hit[i][1]).id, At(c.timeslots, hit[i][2]).id,
                          hit[i][3], <<>>)]

Slice1Result(c, ans) ==
    LET name == _status_str(ans.code)
    IN  IF name \notin {"OPTIMAL", "FEASIBLE"}
        THEN SolveResult(name, None, <<>>, <<"No feasible schedule (slice1).">>, NoStats)
        ELSE SolveResult(name, Some(ans.objective_value), Slice1Entries(c, ans.v), <<>>,
                         [num_conflicts |-> 0, wall_time_s |-> 0])

solve_slice1(c) ==
    /\ pc = "start"
    /\ pc' = "done"
    /\ slice' = 1
    /\ cfg' = cfg
    /\ IF ensure_ok_raises(c)
       THEN raised' = "PrecheckError" /\ result' = NoResult
       ELSE IF ~HasAttr(c.constraints.solver, "num_workers")
       THEN raised' = "AttributeError" /\ result' = NoResult
       ELSE /\ raised' = ""
            /\ \E ans \in SolverAnswers({[v |-> v, obj |-> Slice1Objective(v)] :
                                             v \in Slice1Valuations(c)},
                                         c.constraints.solver.num_workers) :
                   result' = Slice1Result(c, ans)

\* ------------------------------------------------------------------------
\* Panel constraints shared by solver/slice2.py and solver/slice3.py

\* (variant: the panel bounded by panel_size instead of fixed to it)
PanelSizeAtMost(c, yp) == Cardinality(yp) <= c.constraints.panel_size

\* model.add(sum(y[p,l] for l) == panel_size)
PanelSize(c, yp) == Cardinality(yp) = c.constraints.panel_size
YRows(c) == {yp \in SUBSET Range(NumL(c)) : PanelSize(c, yp)}

\* (variant: the constraint of the original demo, y[p, sup] == 0)
SupervisorOutOfPanel(c, y) ==
    LET idx == build_index(c)
    IN  c.constraints.must_include_supervisor =>
            \A p \in DOMAIN y :
                At(c.projects, p).supervisor_lecturer_id # NoId =>
                    YVal(y[p], idx.lecturer_id_to_idx[
                                   At(c.projects, p).supervisor_lecturer_id]) = 0

\* if must_include_supervisor: for every project with a supervisor,
\* model.add(y[p_i, sup_i] == 1)
SupervisorInPanel(c, y) ==
    LET idx == build_index(c)
    IN  c.constraints.must_include_supervisor =>
            \A p \in DOMAIN y :
                At(c.projects, p).supervisor_lecturer_id # NoId =>
                    YVal(y[p], idx.lecturer_id_to_idx[
                                   At(c.projects, p).supervisor_lecturer_id]) = 1

\* (variant: the lower bound z >= x + y - 1 left out)
LineariseUpperOnly(zv, xv, yv) == zv <= xv /\ zv <= yv

\* z <= x, z <= y, z >= x + y - 1 for one (p, l, t, r)
Linearise(zv, xv, yv) == zv <= xv /\ zv <= yv /\ zv >= xv + yv - 1

\* The rows z[p] the linearisation allows for given rows x[p] and y[p]
ZRows(c, xp, yp) ==
    LET vars3   == Range(NumL(c)) \X Range(NumT(c)) \X Range(NumR(c))
        Ok(w, n) == Linearise(n, XVal(xp, w[2], w[3]), YVal(yp, w[1]))
        forced  == {w \in vars3 : ~Ok(w, 0)}
        free    == {w \in vars3 : Ok(w, 0) /\ Ok(w, 1)}
    IN  IF \E w \in vars3 : ~Ok(w, 0) /\ ~Ok(w, 1)
        THEN {}
        ELSE {forced \cup s : s \in SUBSET free}

\* model.add(z[p,l,t,r] == 0) when slot t is not in lecturer l's available set
LecturerAvailability(c, z) ==
    \A l \in Range(NumL(c)) : \A t \in Range(NumT(c)) :
        At(c.timeslots, t).id \notin At(c.lecturers, l).available_slot_ids =>
            \A p \in DOMAIN z : \A r \in Range(NumR(c)) : <<l, t, r>> \notin z[p]

\* (variant: the sum taken per room, over the projects only)
NoDoubleBookingPerRoom(c, z) ==
    \A l \in Range(NumL(c)) : \A t \in Range(NumT(c)) : \A r \in Range(NumR(c)) :
        Cardinality({p \in DOMAIN z : <<l, t, r>> \in z[p]}) <= 1

\* sum(z[p,l,t,r] for p for r) <= 1 for every (l, t)
NoDoubleBooking(c, z) ==
    \A l \in Range(NumL(c)) : \A t \in Range(NumT(c)) :
        Cardinality({<<p, r>> \in (DOMAIN z) \X Range(NumR(c)) : <<l, t, r>> \in z[p]}) <= 1

\* date_to_slots: the slot indices of each date
DateToSlots(c) ==
    [d \in {c.timeslots[i].date : i \in DOMAIN c.timeslots} |->
        {t \in Range(NumT(c)) : At(c.timeslots, t).date = d}]

\* (variant: the cap applied to each slot instead of each date)
MaxPerSlot(c, z) ==
    \A l \in Range(NumL(c)) : \A cap \in At(c.lecturers, l).max_per_day :
        \A t \in Range(NumT(c)) :
            Cardinality({<<p, r>> \in (DOMAIN z) \X Range(NumR(c)) :
                            <<l, t, r>> \in z[p]}) <= cap

\* for every lecturer with max_per_day set and every date:
\* sum(z[p,l,t,r] for p, t in date_slots, r) <= max_per_day
MaxPerDay(c, z) ==
    \A l \in Range(NumL(c)) : \A cap \in At(c.lecturers, l).max_per_day :
        \A d \in DOMAIN DateToSlots(c) :
            Cardinality({<<p, t, r>> \in (DOMAIN z) \X DateToSlots(c)[d] \X Range(NumR(c)) :
                            <<l, t, r>> \in z[p]}) <= cap

\* The valuations of x, y, z that satisfy the hard constraints of slice 2/3
PanelValuations(c) ==
    LET xs == {x \in [Range(NumP(c)) -> XRows(c)] :
                   RoomCapacity(c, x) /\ StudentUnavailability(c, x)}
        ys == {y \in [Range(NumP(c)) -> YRows(c)] : SupervisorInPanel(c, y)}
    IN  UNION {UNION {
            {[x |-> x, y |-> y, z |-> z] :
                z \in {zz \in [Range(NumP(c)) -> UNION {ZRows(c, x[p], y[p]) : p \in Range(NumP(c))}] :
                          /\ \A p \in Range(NumP(c)) : zz[p] \in ZRows(c, x[p], y[p])
                          /\ LecturerAvailability(c, zz)
                          /\ NoDoubleBooking(c, zz)
                          /\ MaxPerDay(c, zz)}}
            : y \in ys} : x \in xs}

\* panel = [cfg.lecturers[l].id for l in range(L) if solver.value(y[p,l]) == 1]
Panel(c, yp) ==
    LET In(l)  == YVal(yp, l) = 1
        hit    == SelectSeq([i \in 1 .. NumL(c) |-> i - 1], In)
    IN  [i \in DOMAIN hit |-> At(c.lecturers, hit[i]).id]

\* for p: for t: for r: if x[p,t,r] == 1: append the entry; break
\* (the break leaves the loop over r only)
PanelEntries(c, v) ==
    LET First(tr) == /\ XVal(v.x[tr[1]], tr[2], tr[3]) = 1
                     /\ \A r \in Range(tr[3]) : XVal(v.x[tr[1]], tr[2], r) = 0
        hit       == SelectSeq(Triples(c), First)
    IN  [i \in DOMAIN hit |->
            ScheduleEntry(At(c.projects, hit[i][1]).id, At(c.timeslots, hit[i][2]).id,
                          hit[i][3], Panel(c, v.y[hit[i][1]]))]

\* ------------------------------------------------------------------------
\* solver/slice2.py

Slice2Valuations(c) ==
    UNION {{[x |-> v.x, y |-> v.y, z |-> v.z, last_t |-> lt] : lt \in LastTVals(c, v.x)} :
              v \in PanelValuations(c)}

Slice2Objective(v) == v.last_t

Slice2Result(c, ans) ==
    LET name == _status_str(ans.code)
    IN  IF name \notin {"OPTIMAL", "FEASIBLE"}
        THEN SolveResult(name, None, <<>>, <<"No feasible schedule (slice2).">>, NoStats)
        ELSE SolveResult(name, Some(ans.objective_value), PanelEntries(c, ans.v), <<>>,
                         NoStats)

solve_slice2(c) ==
    /\ pc = "start"
    /\ pc' = "done"
    /\ slice' = 2
    /\ cfg' = cfg
    /\ IF ensure_ok_raises(c)
       THEN raised' = "PrecheckError" /\ result' = NoResult
       ELSE IF ~HasAttr(c.constraints.solver, "num_workers")
       THEN raised' = "AttributeError" /\ result' = NoResult
       ELSE /\ raised' = ""
            /\ \E ans \in SolverAnswers({[v |-> v, obj |-> Slice2Objective(v)] :
                                             v \in Slice2Valuations(c)},
                                         c.constraints.solver.num_workers) :
                   result' = Slice2Result(c, ans)

\* ------------------------------------------------------------------------
\* solver/slice3.py

\* lunch_t: the indices of the lunch slots that exist
LunchT(c) ==
    LET idx == build_index(c)
    IN  {idx.slot_id_to_idx[sid] :
            sid \in c.constraints.lunch_slot_ids \cap DOMAIN idx.slot_id_to_idx}

\* lunch_penalty = new_int_var(0, P); equal to the number of x set at a
\* lunch slot, or to 0 when there is no lunch slot
LunchPenaltyVals(c, x) ==
    {n \in 0 .. NumP(c) :
        IF LunchT(c) # {}
        THEN n = Cardinality({<<p, t, r>> \in (DOMAIN x) \X LunchT(c) \X Range(NumR(c)) :
                                 XVal(x[p], t, r) = 1})
        ELSE n = 0}

\* count_l = new_int_var(0, P), equal to sum(z[p,l,t,r] for p, t, r)
CountVals(c, z, l) ==
    {n \in 0 .. NumP(c) :
        n = Cardinality({<<p, w>> \in (DOMAIN z) \X (Range(NumT(c)) \X Range(NumR(c))) :
                            <<l, w[1], w[2]>> \in z[p]})}

\* add_max_equality(max_c, counts), add_min_equality(min_c, counts),
\* add(imbalance == max_c - min_c), each variable in 0 .. P
ImbalanceVals(c, z) ==
    LET dom    == 0 .. NumP(c)
        counts == {cs \in [Range(NumL(c)) -> dom] :
                      \A l \in Range(NumL(c)) : cs[l] \in CountVals(c, z, l)}
    IN  {im \in dom : \E cs \in counts, max_c \in dom, min_c \in dom :
            /\ \E l \in DOMAIN cs : max_c = cs[l]
            /\ \A l \in DOMAIN cs : max_c >= cs[l]
            /\ \E l \in DOMAIN cs : min_c = cs[l]
            /\ \A l \in DOMAIN cs : min_c <= cs[l]
            /\ im = max_c - min_c}

Slice3Valuations(c) ==
    UNION {{[x |-> v.x, y |-> v.y, z |-> v.z,
             last_t |-> lt, lunch_penalty |-> lp, imbalance |-> im] :
                lt \in LastTVals(c, v.x), lp \in LunchPenaltyVals(c, v.x),
                im \in ImbalanceVals(c, v.z)} :
              v \in PanelValuations(c)}

\* obj: a term for every weight > 0; minimize(sum(obj) if obj else 0)
Slice3Objective(c, v) ==
    LET w == c.constraints.weights
    IN    (IF w.span > 0 THEN w.span * v.last_t ELSE 0)
        + (IF w.workload_balance > 0 THEN w.workload_balance * v.imbalance ELSE 0)
        + (IF w.lunch > 0 THEN w.lunch * v.lunch_penalty ELSE 0)

\* (variant: no objective reported when the list of terms is empty)
Slice3ResultNoConstantObjective(c, ans) ==
    LET name == _status_str(ans.code)
        w    == c.constraints.weights
    IN  IF name \notin {"OPTIMAL", "FEASIBLE"}
        THEN SolveResult(name, None, <<>>, <<"No feasible schedule (slice3).">>, NoStats)
        ELSE SolveResult(name,
                         IF w.span > 0 \/ w.workload_balance > 0 \/ w.lunch > 0
                         THEN Some(ans.objective_value) ELSE None,
                         PanelEntries(c, ans.v), <<>>,
                         [last_t |-> ans.v.last_t, imbalance |-> ans.v.imbalance,
                          lunch_penalty |-> ans.v.lunch_penalty, wall_time_s |-> 0])

\* (variant: the failure branch as copied from slice 2, message unchanged)
Slice3ResultSlice2Message(c, ans) ==
    LET name == _status_str(ans.code)
    IN  IF name \notin {"OPTIMAL", "FEASIBLE"}
        THEN SolveResult(name, None, <<>>, <<"No feasible schedule (slice2).">>, NoStats)
        ELSE SolveResult(name, Some(ans.objective_value), PanelEntries(c, ans.v), <<>>,
                         [last_t |-> ans.v.last_t, imbalance |-> ans.v.imbalance,
                          lunch_penalty |-> ans.v.lunch_penalty, wall_time_s |-> 0])

Slice3Result(c, ans) ==
    LET name == _status_str(ans.code)
    IN  IF name \notin {"OPTIMAL", "FEASIBLE"}
        THEN SolveResult(name, None, <<>>, <<"No feasible schedule (slice3).">>, NoStats)
        ELSE SolveResult(name, Some(ans.objective_value), PanelEntries(c, ans.v), <<>>,
                         [last_t |-> ans.v.last_t, imbalance |-> ans.v.imbalance,
                          lunch_penalty |-> ans.v.lunch_penalty, wall_time_s |-> 0])

solve_slice3(c) ==
    /\ pc = "start"
    /\ pc' = "done"
    /\ slice' = 3
    /\ cfg' = cfg
    /\ IF ensure_ok_raises(c)
       THEN raised' = "PrecheckError" /\ result' = NoResult
       ELSE IF NumP(c) > 0 /\ NumL(c) > 0
       THEN \* y = {(p, l): ... for p in range(P) for li in range(L)}: the
            \* key names l, which nothing binds
            raised' = "NameError" /\ result' = NoResult
       ELSE IF ~HasAttr(c.constraints.solver, "num_workers")
       THEN raised' = "AttributeError" /\ result' = NoResult
       ELSE /\ raised' = ""
            /\ \E ans \in SolverAnswers({[v |-> v, obj |-> Slice3Objective(c, v)] :
                                             v \in Slice3Valuations(c)},
                                         c.constraints.solver.num_workers) :
                   result' = Slice3Result(c, ans)

\* ------------------------------------------------------------------------
\* Configurations

SlotIds(T) == {<<"TS", i>> : i \in 1 .. T}

\* Timeslot lists in chronological order: the first slot is on day 1, each
\* later slot on the same day as its predecessor or on the next day.
DateLists(T) ==
    {d \in [1 .. T -> 1 .. T] :
        /\ T > 0 => d[1] = 1
        /\ \A i \in 1 .. (T - 1) : d[i + 1] \in {d[i], d[i] + 1}}
TimeslotLists(T) ==
    {[i \in 1 .. T |-> [id |-> <<"TS", i>>, date |-> d[i]]] : d \in DateLists(T)}

\* Lecturers with any availability; at most the first one has a daily cap
LecturerLists(T, L) ==
    {[i \in 1 .. L |-> [id |-> <<"L", i>>, available_slot_ids |-> av[i],
                         max_per_day |-> IF i = 1 THEN cap ELSE None]] :
        av \in [1 .. L -> SUBSET SlotIds(T)], cap \in {None, Some(1)}}

\* One student, who belongs to the first project (the fixture of the tests)
StudentLists(T) ==
    {<<[id |-> <<"S", 1>>, unavailable_slot_ids |-> un]>> : un \in SUBSET SlotIds(T)}

ProjectLists(L, P, must) ==
    LET lids == {<<"L", i>> : i \in 1 .. L}
        sups == IF must THEN [1 .. P -> lids \cup {NoId}]
                ELSE {[i \in 1 .. P |-> NoId]}
    IN  {[i \in 1 .. P |-> [id |-> <<"P", i>>,
                             student_ids |-> IF i = 1 THEN {<<"S", 1>>} ELSE {},
                             supervisor_lecturer_id |-> sup[i]]] : sup \in sups}

\* models.Weights(): span = 1, workload_balance = 10, lunch = 3
DefaultWeights == [span |-> 1, workload_balance |-> 10, lunch |-> 3]

MkConfig(ts, ls, ss, ps, rooms, panel_size, must, lunch, weights, solver) ==
    [timeslots |-> ts, lecturers |-> ls, students |-> ss, projects |-> ps,
     constraints |-> [rooms |-> rooms, panel_size |-> panel_size,
                      must_include_supervisor |-> must, lunch_slot_ids |-> lunch,
                      weights |-> weights, solver |-> solver]]

\* The values of the file, the loaded configuration, the exit code, the
\* index and the grid while there is none
NoDoc    == <<>>
NoConfig == <<>>
NoExit   == -1
NoIndex  == <<>>
NoGrid   == {}

\* Every combination of entities and hard-constraint settings
HardConfig(c) ==
    \E T \in 0 .. MaxT, L \in 0 .. MaxL, P \in 0 .. MaxP, must \in BOOLEAN :
    \E ts \in TimeslotLists(T), ls \in LecturerLists(T, L), ss \in StudentLists(T),
       ps \in ProjectLists(L, P, must), R \in 1 .. MaxR, K \in 1 .. MaxL :
        c = MkConfig(ts, ls, ss, ps, R, K, must, {}, DefaultWeights,
                     WithNumWorkers(SolverParams, 1))

\* The soft-objective settings: every combination of zero and default
\* weights and every set of lunch slots, on configurations without
\* availability restrictions
WeightChoices ==
    {[span |-> ws, workload_balance |-> ww, lunch |-> wl] :
        ws \in {0, DefaultWeights.span},
        ww \in {0, DefaultWeights.workload_balance},
        wl \in {0, DefaultWeights.lunch}}

FreeLecturers(T, L) ==
    [i \in 1 .. L |-> [id |-> <<"L", i>>, available_slot_ids |-> SlotIds(T),
                        max_per_day |-> None]]
FreeStudents == <<[id |-> <<"S", 1>>, unavailable_slot_ids |-> {}]>>

SoftConfig(c) ==
    \E T \in 1 .. MaxT, L \in 1 .. MaxL, P \in 0 .. MaxP :
    \E ts \in TimeslotLists(T), ps \in ProjectLists(L, P, FALSE),
       R \in 1 .. MaxR, K \in 1 .. L, lunch \in SUBSET SlotIds(T), w \in WeightChoices :
        c = MkConfig(ts, FreeLecturers(T, L), FreeStudents, ps, R, K, FALSE, lunch, w,
                     WithNumWorkers(SolverParams, 1))

\* The solver parameters: as the dataclass builds them (no num_workers
\* attribute), and with the worker counts a caller can assign
SolverChoices ==
    {SolverParams} \cup {WithNumWorkers(SolverParams, n) : n \in {-1, 0, 1}}

ParamConfig(c) ==
    \E T \in 0 .. MaxT, L \in 1 .. MaxL, P \in 0 .. MaxP :
    \E ts \in TimeslotLists(T), ps \in ProjectLists(L, P, FALSE),
       R \in 1 .. MaxR, K \in 1 .. L, sp \in SolverChoices :
        c = MkConfig(ts, FreeLecturers(T, L), FreeStudents, ps, R, K, FALSE, {},
                     DefaultWeights, sp)

\* Nothing saved, loaded, indexed or edited yet
Idle ==
    /\ doc = NoDoc
    /\ loaded = NoConfig
    /\ exit_code = NoExit
    /\ index = NoIndex
    /\ grid = NoGrid
    /\ ops = 0

Init ==
    /\ HardConfig(cfg) \/ SoftConfig(cfg) \/ ParamConfig(cfg)
    /\ pc = "start"
    /\ slice = 0
    /\ raised = ""
    /\ result = NoResult
    /\ level = <<>>
    /\ Idle

\* The slices called directly, as the tests call them
Next ==
    \/ solve_slice1(cfg) /\ UNCHANGED <<level, ioVars, index, uiVars>>
    \/ solve_slice2(cfg) /\ UNCHANGED <<level, ioVars, index, uiVars>>
    \/ solve_slice3(cfg) /\ UNCHANGED <<level, ioVars, index, uiVars>>

Spec == Init /\ [][Next]_vars

\* ------------------------------------------------------------------------
\* solver/api.py

\* The level strings a caller passes: the names and aliases, spellings of
\* them in other letter case, and strings that name no slice
LevelStrings ==
    {"", "1", "2", "3", "slice1", "slice2", "slice3", "full",
     "SLICE1", "Slice2", "FULL", "0", "slice4", "all"}
\* The arguments after cfg: none (the default applies), None, or a string
LevelArgs == {<<>>, <<None>>} \cup {<<Some(s)>> : s \in LevelStrings}

\* (variant: the level compared as given)
lower_unchanged(s) == s

\* str.lower() on the strings of LevelStrings
lower(s) ==
    CASE s = "SLICE1" -> "slice1"
      [] s = "Slice2" -> "slice2"
      [] s = "FULL"   -> "full"
      [] OTHER        -> s

\* level or "": None and "" both give ""
OrEmpty(lv) == IF lv = None THEN "" ELSE CHOOSE s \in lv : TRUE

\* def solve(cfg, level="slice3")
solve(c, args) ==
    LET passed == IF args = <<>> THEN Some("slice3") ELSE args[1]
        lv     == lower(OrEmpty(passed))
    IN  /\ level' = args
        /\ IF lv \in {"1", "slice1"} THEN solve_slice1(c)
           ELSE IF lv \in {"2", "slice2"} THEN solve_slice2(c)
           ELSE IF lv \in {"3", "slice3", "full"} THEN solve_slice3(c)
           ELSE /\ pc = "start"
                /\ pc' = "done"
                /\ raised' = "ValueError"
                /\ UNCHANGED <<cfg, slice, result>>

\* The callers of the dispatcher (cli.main, App) pass a configuration and
\* a level
InitApi ==
    /\ ParamConfig(cfg)
    /\ pc = "start"
    /\ slice = 0
    /\ raised = ""
    /\ result = NoResult
    /\ level = <<>>
    /\ Idle

NextApi == \E args \in LevelArgs : solve(cfg, args) /\ UNCHANGED <<ioVars, index, uiVars>>

SpecApi == InitApi /\ [][NextApi]_vars

\* ------------------------------------------------------------------------
\* Properties of the returned result

Returned  == pc = "done" /\ raised = ""
Scheduled == Returned /\ result.status \in {"OPTIMAL", "FEASIBLE"}
Entries   == result.entries
PanelSet(e) == {e.panel_lecturer_ids[i] : i \in DOMAIN e.panel_lecturer_ids}
SlotIdx(id) == build_index(cfg).slot_id_to_idx[id]
LecturerById(id) == At(cfg.lecturers, build_index(cfg).lecturer_id_to_idx[id])
ProjectById(id)  == At(cfg.projects, build_index(cfg).project_id_to_idx[id])
StudentById(id)  == At(cfg.students, build_index(cfg).student_id_to_idx[id])

\* C1: whenever a slice returns OPTIMAL or FEASIBLE, the entries list has
\* exactly one entry per project: as many entries as projects, and the set of
\* entry project ids is the set of project ids.
C1_OneEntryPerProject ==
    Scheduled =>
        /\ Len(Entries) = Len(cfg.projects)
        /\ {Entries[i].project_id : i \in DOMAIN Entries} = IdsOf(cfg.projects)
C1_Witness ==
    Scheduled /\ Len(cfg.projects) = 2 /\ Len(Entries) = 2

\* C2: in an OPTIMAL or FEASIBLE result of any slice no two entries share
\* the same (timeslot_id, room) pair.
C2_NoRoomConflict ==
    Scheduled =>
        \A i, j \in DOMAIN Entries :
            i # j => <<Entries[i].timeslot_id, Entries[i].room>>
                       # <<Entries[j].timeslot_id, Entries[j].room>>
C2_Witness ==
    /\ Scheduled
    /\ \E i, j \in DOMAIN Entries :
           i # j /\ Entries[i].timeslot_id = Entries[j].timeslot_id
                 /\ Entries[i].room # Entries[j].room

\* C3: in an OPTIMAL or FEASIBLE result of slice 2 or 3 every entry's panel
\* lists exactly panel_size distinct lecturer ids.
C3_PanelSize ==
    (Scheduled /\ slice \in {2, 3}) =>
        \A i \in DOMAIN Entries :
            /\ Len(Entries[i].panel_lecturer_ids) = cfg.constraints.panel_size
            /\ Cardinality(PanelSet(Entries[i])) = cfg.constraints.panel_size
C3_Witness ==
    /\ Scheduled /\ slice \in {2, 3}
    /\ cfg.constraints.panel_size < Len(cfg.lecturers)
    /\ Len(Entries) = 2
    /\ PanelSet(Entries[1]) # PanelSet(Entries[2])

\* C4: in an OPTIMAL or FEASIBLE result of slice 2 or 3 with
\* must_include_supervisor, every project that has a supervisor has the
\* supervisor's id on the panel of its entry.
C4_SupervisorOnPanel ==
    (Scheduled /\ slice \in {2, 3} /\ cfg.constraints.must_include_supervisor) =>
        \A p \in DOMAIN cfg.projects :
            cfg.projects[p].supervisor_lecturer_id # NoId =>
                /\ \E i \in DOMAIN Entries : Entries[i].project_id = cfg.projects[p].id
                /\ \A i \in DOMAIN Entries :
                       Entries[i].project_id = cfg.projects[p].id =>
                           cfg.projects[p].supervisor_lecturer_id \in PanelSet(Entries[i])
C4_Witness ==
    /\ Scheduled /\ slice \in {2, 3} /\ cfg.constraints.must_include_supervisor
    /\ cfg.constraints.panel_size < Len(cfg.lecturers)
    /\ Len(Entries) = 2
    /\ cfg.projects[1].supervisor_lecturer_id # cfg.projects[2].supervisor_lecturer_id

\* C5: in an OPTIMAL or FEASIBLE result of slice 2 or 3 every lecturer on
\* an entry's panel is available at the entry's timeslot (the consequence
\* of z = x AND y together with z = 0 on unavailable slots).
C5_PanelAvailable ==
    (Scheduled /\ slice \in {2, 3}) =>
        \A i \in DOMAIN Entries : \A lid \in PanelSet(Entries[i]) :
            Entries[i].timeslot_id \in LecturerById(lid).available_slot_ids
C5_Witness ==
    /\ Scheduled /\ slice \in {2, 3}
    /\ \E i \in DOMAIN Entries : \E lid \in PanelSet(Entries[i]) :
           LecturerById(lid).available_slot_ids # IdsOf(cfg.timeslots)
    /\ \E i \in DOMAIN Entries : \E l \in DOMAIN cfg.lecturers :
           /\ cfg.lecturers[l].id \notin PanelSet(Entries[i])
           /\ Entries[i].timeslot_id \notin cfg.lecturers[l].available_slot_ids

\* C6: in an OPTIMAL or FEASIBLE result of slice 2 or 3 no lecturer is on
\* the panels of two different entries with the same timeslot_id, whatever
\* their rooms.
C6_NoDoubleBooking ==
    (Scheduled /\ slice \in {2, 3}) =>
        \A i, j \in DOMAIN Entries :
            (i # j /\ Entries[i].timeslot_id = Entries[j].timeslot_id) =>
                PanelSet(Entries[i]) \cap PanelSet(Entries[j]) = {}
C6_Witness ==
    /\ Scheduled /\ slice \in {2, 3}
    /\ \E i, j \in DOMAIN Entries :
           /\ i # j /\ Entries[i].timeslot_id = Entries[j].timeslot_id
           /\ PanelSet(Entries[i]) # {} /\ PanelSet(Entries[j]) # {}

EntriesOnDate(lid, d) ==
    {i \in DOMAIN Entries :
        /\ At(cfg.timeslots, SlotIdx(Entries[i].timeslot_id)).date = d
        /\ lid \in PanelSet(Entries[i])}
\* C7: in an OPTIMAL or FEASIBLE result of slice 2 or 3, for every lecturer
\* with max_per_day = M and every date d, at most M entries have a timeslot
\* on date d and the lecturer on their panel.
C7_MaxPerDay ==
    (Scheduled /\ slice \in {2, 3}) =>
        \A l \in DOMAIN cfg.lecturers : \A M \in cfg.lecturers[l].max_per_day :
            \A t \in DOMAIN cfg.timeslots :
                Cardinality(EntriesOnDate(cfg.lecturers[l].id, cfg.timeslots[t].date)) <= M
C7_Witness ==
    /\ Scheduled /\ slice \in {2, 3}
    /\ \E l \in DOMAIN cfg.lecturers :
           /\ cfg.lecturers[l].max_per_day # None
           /\ \E i, j \in DOMAIN Entries :
                  /\ i # j
                  /\ Entries[i].timeslot_id # Entries[j].timeslot_id
                  /\ At(cfg.timeslots, SlotIdx(Entries[i].timeslot_id)).date
                       = At(cfg.timeslots, SlotIdx(Entries[j].timeslot_id)).date
                  /\ cfg.lecturers[l].id \in PanelSet(Entries[i])

\* C8: in an OPTIMAL or FEASIBLE result of any slice no entry's timeslot is
\* in the unavailable slots of a student of the entry's project.
C8_StudentsAvailable ==
    Scheduled =>
        \A i \in DOMAIN Entries :
            \A sid \in ProjectById(Entries[i].project_id).student_ids :
                Entries[i].timeslot_id \notin StudentById(sid).unavailable_slot_ids
C8_Witness ==
    /\ Scheduled
    /\ \E i \in DOMAIN Entries :
           \E sid \in ProjectById(Entries[i].project_id).student_ids :
               /\ StudentById(sid).unavailable_slot_ids # {}
               /\ Entries[i].room > 0

EntryCount(lid) == Cardinality({i \in DOMAIN Entries : lid \in PanelSet(Entries[i])})
EntryCounts == {EntryCount(cfg.lecturers[l].id) : l \in DOMAIN cfg.lecturers}
\* A slice-3 call that got past the precheck and stopped while building y
Slice3Crashed == pc = "done" /\ slice = 3 /\ raised = "NameError"
\* The three parts of C9
C9_LastT ==
    (Scheduled /\ slice = 3 /\ Entries # <<>>) =>
        result.stats.last_t
            = MaxOf({SlotIdx(Entries[i].timeslot_id) : i \in DOMAIN Entries})
C9_Imbalance ==
    (Scheduled /\ slice = 3) =>
        result.stats.imbalance = MaxOf(EntryCounts) - MinOf(EntryCounts)
C9_LunchPenalty ==
    (Scheduled /\ slice = 3) =>
        result.stats.lunch_penalty
            = Cardinality({i \in DOMAIN Entries :
                              Entries[i].timeslot_id \in cfg.constraints.lunch_slot_ids})

\* C9: slice 3 builds its model and, in an OPTIMAL or FEASIBLE slice-3
\* result, for every weight setting, stats.last_t is the largest timeslot
\* index of an entry, stats.imbalance is the largest minus the smallest
\* number of entries per lecturer, and stats.lunch_penalty is the number of
\* entries at a lunch slot.
C9_StatsMatchEntries == ~Slice3Crashed /\ C9_LastT /\ C9_Imbalance /\ C9_LunchPenalty

Diagnostic(n) ==
    CASE n = 1 -> "No feasible schedule (slice1)."
      [] n = 2 -> "No feasible schedule (slice2)."
      [] n = 3 -> "No feasible schedule (slice3)."
\* C10: when the backend status is not OPTIMAL or FEASIBLE, the result of
\* slice N has no entries, no objective_value and exactly the one diagnostic
\* "No feasible schedule (sliceN).".
C10_NoScheduleResult ==
    (Returned /\ result.status \notin {"OPTIMAL", "FEASIBLE"}) =>
        /\ result.status \in {"INFEASIBLE", "MODEL_INVALID", "UNKNOWN"}
        /\ result.entries = <<>>
        /\ result.objective_value = None
        /\ result.diagnostics = <<Diagnostic(slice)>>
C10_Witness ==
    Returned /\ slice = 3 /\ result.status = "MODEL_INVALID"

\* ------------------------------------------------------------------------
\* Error handling and the shape of the result

Capacity  == cfg.constraints.rooms * Len(cfg.timeslots)
AllWeightsZero ==
    /\ cfg.constraints.weights.span = 0
    /\ cfg.constraints.weights.workload_balance = 0
    /\ cfg.constraints.weights.lunch = 0

\* C11: infeasibility is returned as a result and never raised: a call on a
\* configuration with rooms * |timeslots| < |projects| returns status
\* INFEASIBLE, and a call of slice 2 or 3 on one with
\* panel_size > |lecturers| returns MODEL_INVALID or INFEASIBLE; neither
\* raises a precheck error.
C11_InfeasibleIsResult ==
    pc = "done" =>
        /\ Capacity < Len(cfg.projects) =>
               /\ raised # "PrecheckError"
               /\ raised = "" /\ result.status = "INFEASIBLE"
        /\ (/\ slice \in {2, 3} /\ Len(cfg.projects) > 0
            /\ cfg.constraints.panel_size > Len(cfg.lecturers)) =>
               /\ raised # "PrecheckError"
               /\ raised = "" /\ result.status \in {"MODEL_INVALID", "INFEASIBLE"}

\* C12: for every configuration with no projects or with no timeslots, each
\* slice returns status OPTIMAL with empty entries and objective 0.
C12_EmptyIsOptimal ==
    (pc = "done" /\ (Len(cfg.projects) = 0 \/ Len(cfg.timeslots) = 0)) =>
        /\ raised = ""
        /\ result.status = "OPTIMAL"
        /\ result.entries = <<>>
        /\ result.objective_value = Some(0)

\* At slices 1 and 2 the compactness term is always posted; at slice 3 a
\* term is posted for every positive weight.
SoftTermActive == slice \in {1, 2} \/ (slice = 3 /\ ~AllWeightsZero)

\* C13 as stated: objective_value is present iff the status is OPTIMAL or
\* FEASIBLE and at least one soft term is active; a slice-3 result with all
\* three weights zero has no objective_value.
C13_ObjectiveIffSoftTerm ==
    Returned =>
        (result.objective_value # None <=> (Scheduled /\ SoftTermActive))

\* C13 (amended): objective_value is present iff the status is OPTIMAL or
\* FEASIBLE; a slice-3 result with all three weights zero has
\* objective_value 0.
C13_ObjectiveIffScheduled ==
    Returned =>
        /\ result.objective_value # None <=> Scheduled
        /\ (Scheduled /\ slice = 3 /\ AllWeightsZero) => result.objective_value = Some(0)
C13_Witness ==
    Scheduled /\ slice = 3 /\ AllWeightsZero /\ result.objective_value = Some(0)

\* C14 as stated: solve(cfg, level) runs slice 1 for "1" or "slice1", slice
\* 2 for "2" or "slice2", slice 3 for "3", "slice3" or "full"; for every
\* other level value, empty or missing (None) included, it fails with the
\* unknown-level error and no slice runs.
C14_Dispatch ==
    (pc = "done" /\ level # <<>>) =>
        IF level \in {<<Some("1")>>, <<Some("slice1")>>}
        THEN slice = 1 /\ raised # "ValueError"
        ELSE IF level \in {<<Some("2")>>, <<Some("slice2")>>}
        THEN slice = 2 /\ raised # "ValueError"
        ELSE IF level \in {<<Some("3")>>, <<Some("slice3")>>, <<Some("full")>>}
        THEN slice = 3 /\ raised # "ValueError"
        ELSE raised = "ValueError" /\ slice = 0 /\ result = NoResult

\* C14 (amended): the level is matched without regard to letter case, and a
\* call that passes no level runs slice 3 (the default "slice3"); every
\* other value, the empty string and None included, fails with the
\* unknown-level ValueError and no slice runs.
C14_DispatchAnyCase ==
    pc = "done" =>
        IF level \in {<<Some("1")>>, <<Some("slice1")>>, <<Some("SLICE1")>>}
        THEN slice = 1 /\ raised # "ValueError"
        ELSE IF level \in {<<Some("2")>>, <<Some("slice2")>>, <<Some("Slice2")>>}
        THEN slice = 2 /\ raised # "ValueError"
        ELSE IF level \in {<<>>, <<Some("3")>>, <<Some("slice3")>>, <<Some("full")>>,
                           <<Some("FULL")>>}
        THEN slice = 3 /\ raised # "ValueError"
        ELSE raised = "ValueError" /\ slice = 0 /\ result = NoResult
C14_Witness ==
    pc = "done" /\ level = <<Some("FULL")>> /\ slice = 3 /\ Scheduled

\* (timeslot index, room) of entry i, and the order on such pairs
EntryKey(i) == <<SlotIdx(Entries[i].timeslot_id), Entries[i].room>>
KeyLeq(a, b) == a[1] < b[1] \/ (a[1] = b[1] /\ a[2] <= b[2])

\* C15: in every OPTIMAL or FEASIBLE result the entries are ordered by
\* (index of the entry's timeslot in cfg.timeslots, room), non-decreasing
\* from the first entry to the last.
C15_EntriesOrdered ==
    Scheduled =>
        \A i, j \in DOMAIN Entries : i < j => KeyLeq(EntryKey(i), EntryKey(j))

\* C16: every OPTIMAL or FEASIBLE result has stats with the key
\* wall_time_s; those of slice 1 and slice 2 also have num_conflicts, those
\* of slice 3 also have last_t, imbalance and lunch_penalty.
C16_StatsKeys ==
    Scheduled =>
        /\ "wall_time_s" \in DOMAIN result.stats
        /\ slice \in {1, 2} => "num_conflicts" \in DOMAIN result.stats
        /\ slice = 3 => {"last_t", "imbalance", "lunch_penalty"} \subseteq DOMAIN result.stats

\* ------------------------------------------------------------------------
\* Optimality

\* The index of the latest slot an assignment x uses (x places a project)
LatestUsed(x) == MaxOf({cell[1] : cell \in UNION {x[p] : p \in DOMAIN x}})

\* The assignments x that satisfy the hard constraints of slice n
HardAssignments(c, n) ==
    IF n = 1
    THEN {x \in [Range(NumP(c)) -> XRows(c)] :
             RoomCapacity(c, x) /\ StudentUnavailability(c, x)}
    ELSE {v.x : v \in PanelValuations(c)}

\* The smallest achievable index of the latest used slot
MinLatestUsed(c, n) == MinOf({LatestUsed(x) : x \in HardAssignments(c, n)})

CeilDiv(a, b) == (a + b - 1) \div b

PanelLoad(y, l) == Cardinality({p \in DOMAIN y : l \in y[p]})
PanelImbalance(c, y) ==
    LET loads == {PanelLoad(y, l) : l \in Range(NumL(c))}
    IN  MaxOf(loads) - MinOf(loads)
UsesLunch(c, x) == \E p \in DOMAIN x : \E cell \in x[p] : cell[1] \in LunchT(c)

\* Some assignment satisfying all hard constraints uses no lunch slot, and
\* (where the imbalance is part of the objective) is as balanced as any
LunchAvoidable(c) ==
    LET all  == PanelValuations(c)
        best == MinOf({PanelImbalance(c, v.y) : v \in all})
    IN  \E v \in all :
            /\ ~UsesLunch(c, v.x)
            /\ c.constraints.weights.workload_balance > 0 =>
                   PanelImbalance(c, v.y) = best

\* C18: at slice 3 with a positive lunch weight and span weight 0, whenever
\* some assignment satisfying all hard constraints uses no lunch slot (and
\* avoiding lunch does not worsen the workload imbalance), the solve gets
\* to the backend, and an OPTIMAL result has no entry at a slot of
\* lunch_slot_ids and reports lunch_penalty = 0.
C18_LunchAvoided ==
    (/\ pc = "done" /\ slice = 3 /\ raised \notin {"PrecheckError", "AttributeError"}
     /\ cfg.constraints.weights.lunch > 0 /\ cfg.constraints.weights.span = 0
     /\ LunchAvoidable(cfg)) =>
        /\ Returned
        /\ result.status = "OPTIMAL" =>
               /\ \A i \in DOMAIN Entries :
                      Entries[i].timeslot_id \notin cfg.constraints.lunch_slot_ids
               /\ result.stats.lunch_penalty = 0

\* C19: every slice-3 call that passes the precheck and reads a worker
\* count ends in a result, and for every OPTIMAL or FEASIBLE slice-3 result
\* objective_value equals span * stats.last_t + workload_balance *
\* stats.imbalance + lunch * stats.lunch_penalty (a zero weight contributes
\* nothing), and it is 0 when all three weights are zero.
C19_ObjectiveFormula ==
    (pc = "done" /\ slice = 3 /\ raised \notin {"PrecheckError", "AttributeError"}) =>
        /\ Returned
        /\ Scheduled =>
               LET w == cfg.constraints.weights
               IN  /\ result.objective_value =
                          Some(w.span * result.stats.last_t
                               + w.workload_balance * result.stats.imbalance
                               + w.lunch * result.stats.lunch_penalty)
                   /\ AllWeightsZero => result.objective_value = Some(0)

\* ------------------------------------------------------------------------
\* Solving again with the entries fixed

ValuationsOf(c, n) ==
    IF n = 1 THEN Slice1Valuations(c)
    ELSE IF n = 2 THEN Slice2Valuations(c)
    ELSE Slice3Valuations(c)
ObjectiveOf(c, n, v) ==
    IF n = 1 THEN Slice1Objective(v)
    ELSE IF n = 2 THEN Slice2Objective(v)
    ELSE Slice3Objective(c, v)

\* The valuation v places every entry's project at the entry's slot and
\* room and, at slices 2 and 3, gives it the entry's panel
AgreesWith(c, n, v, entries) ==
    \A i \in DOMAIN entries :
        LET p == build_index(c).project_id_to_idx[entries[i].project_id]
            t == build_index(c).slot_id_to_idx[entries[i].timeslot_id]
        IN  /\ v.x[p] = {<<t, entries[i].room>>}
            /\ IF n = 1 THEN TRUE
               ELSE {At(c.lecturers, l).id : l \in v.y[p]} = PanelSet(entries[i])

\* What the backend may answer for the slice-n model of c with the entries
\* added as hard constraints
ResolveAnswers(c, n, entries) ==
    SolverAnswers({[v |-> v, obj |-> ObjectiveOf(c, n, v)] :
                      v \in {w \in ValuationsOf(c, n) : AgreesWith(c, n, w, entries)}},
                  c.constraints.solver.num_workers)

\* C20: for every OPTIMAL or FEASIBLE result, solving the same
\* configuration at the same slice again with each project's slot, room and
\* panel fixed to the values of the returned entries yields the objective
\* value of the original result.
C20_ResolveSameObjective ==
    Scheduled =>
        \A ans \in ResolveAnswers(cfg, slice, Entries) :
            ans.code \in {CP_OPTIMAL, CP_FEASIBLE} =>
                Some(ans.objective_value) = result.objective_value

\* ------------------------------------------------------------------------
\* io_json.py: the configuration file
\*
\* A JSON object is a record whose domain is the set of keys present.  A key
\* that may hold null holds None or Some(object).  The numbers and booleans
\* of a document are kept as their JSON text; ids, dates and names are JSON
\* strings, on which str() returns its argument.  Lists of ids are sets, as
\* in the configurations above.

EmptyDict == [k \in {} |-> ""]
TheDict(o) == CHOOSE d \in o : TRUE
\* obj.get(key, default)
get(obj, key, default) == IF key \in DOMAIN obj THEN obj[key] ELSE default
Str(v) == v

\* json.dump of an int; json.load followed by int(): 2.5 is truncated, the
\* string "2" is parsed, the string "x" is a ValueError
JsonOfInt(n) ==
    CASE n = -1 -> "-1" [] n = 0 -> "0" [] n = 1 -> "1" [] n = 2 -> "2"
      [] n = 3 -> "3" [] n = 4 -> "4" [] n = 8 -> "8" [] n = 10 -> "10"
IntOfJson(t) ==
    CASE t = "-1" -> -1 [] t = "0" -> 0 [] t = "1" -> 1 [] t = "2" -> 2
      [] t = "3" -> 3 [] t = "4" -> 4 [] t = "8" -> 8 [] t = "10" -> 10
      [] t = "2.5" -> 2 [] t = "\"2\"" -> 2
IntRaises(t) == t = "\"x\""
\* json.dump of a float; json.load followed by float()
JsonOfFloat(n) == CASE n = 5 -> "5.0" [] n = 10 -> "10.0"
FloatOfJson(t) == CASE t = "5.0" -> 5 [] t = "10.0" -> 10
\* json.dump of a bool; json.load followed by bool(): a number is true
\* unless zero, a string unless empty
JsonOfBool(b) == IF b THEN "true" ELSE "false"
BoolOfJson(t) == t \in {"true", "1", "\"false\""}
\* an Optional[int]: null or the number
JsonOfOptInt(o) == IF o = None THEN "null" ELSE JsonOfInt(CHOOSE n \in o : TRUE)
OptIntOfJson(t) == IF t = "null" THEN None ELSE Some(IntOfJson(t))

\* Config.validate: the ValueError cases
validate_raises(c) ==
    \/ c.constraints.rooms < 1
    \/ c.constraints.panel_size < 1
    \/ c.constraints.weights.span < 0
    \/ c.constraints.weights.workload_balance < 0
    \/ c.constraints.weights.lunch < 0

\* asdict keeps the declared fields of SolverParams
DeclaredSolver(sp) ==
    [max_time_in_seconds |-> sp.max_time_in_seconds,
     num_search_workers  |-> sp.num_search_workers]

\* Config.to_dict() as json.dump writes it and json.load reads it back
to_dict(c) ==
    [meta      |-> Some(c.meta),
     timeslots |-> [i \in DOMAIN c.timeslots |->
                       [id |-> c.timeslots[i].id, date |-> c.timeslots[i].date,
                        start |-> c.timeslots[i].start, end |-> c.timeslots[i].end,
                        label |-> c.timeslots[i].label]],
     lecturers |-> [i \in DOMAIN c.lecturers |->
                       [id |-> c.lecturers[i].id, name |-> c.lecturers[i].name,
                        available_slot_ids |-> c.lecturers[i].available_slot_ids,
                        max_per_day |-> JsonOfOptInt(c.lecturers[i].max_per_day),
                        max_total |-> JsonOfOptInt(c.lecturers[i].max_total)]],
     students  |-> [i \in DOMAIN c.students |->
                       [id |-> c.students[i].id, name |-> c.students[i].name,
                        unavailable_slot_ids |-> c.students[i].unavailable_slot_ids]],
     projects  |-> [i \in DOMAIN c.projects |->
                       [id |-> c.projects[i].id, title |-> c.projects[i].title,
                        student_ids |-> c.projects[i].student_ids,
                        supervisor_lecturer_id |-> c.projects[i].supervisor_lecturer_id]],
     constraints |-> Some(
        [rooms |-> JsonOfInt(c.constraints.rooms),
         panel_size |-> JsonOfInt(c.constraints.panel_size),
         must_include_supervisor |-> JsonOfBool(c.constraints.must_include_supervisor),
         lunch_slot_ids |-> c.constraints.lunch_slot_ids,
         weights |-> Some([span |-> JsonOfInt(c.constraints.weights.span),
                           workload_balance |->
                               JsonOfInt(c.constraints.weights.workload_balance),
                           lunch |-> JsonOfInt(c.constraints.weights.lunch)]),
         solver |-> Some([max_time_in_seconds |->
                              JsonOfFloat(c.constraints.solver.max_time_in_seconds),
                          num_search_workers |->
                              JsonOfInt(c.constraints.solver.num_search_workers)])])]

\* _check_unique_ids: an empty id, or an id seen before
_check_unique_ids_raises(items) ==
    \/ \E i \in DOMAIN items : items[i].id = NoId
    \/ \E i, j \in DOMAIN items : i < j /\ items[i].id = items[j].id

\* The dictionaries load_config reads, each with {} for an absent key
MetaRaw(raw)        == get(raw, "meta", Some(EmptyDict))
ConstraintsRaw(raw) == get(raw, "constraints", Some(EmptyDict))
WeightsRaw(raw)     == get(TheDict(ConstraintsRaw(raw)), "weights", Some(EmptyDict))
SolverRaw(raw)      == get(TheDict(ConstraintsRaw(raw)), "solver", Some(EmptyDict))

\* (variant: max_per_day read under the key "max_per_day_limit")
LoadLecturerOtherKey(l) ==
    [id |-> Str(l.id), name |-> Str(l.name),
     available_slot_ids |-> get(l, "available_slot_ids", {}),
     max_per_day |-> OptIntOfJson(get(l, "max_per_day_limit", "null")),
     max_total   |-> OptIntOfJson(get(l, "max_total", "null"))]

\* Lecturer(id=str(..), name=str(..), available_slot_ids=[..],
\*          max_per_day=l.get("max_per_day"), max_total=l.get("max_total"))
LoadLecturer(l) ==
    [id |-> Str(l.id), name |-> Str(l.name),
     available_slot_ids |-> get(l, "available_slot_ids", {}),
     max_per_day |-> OptIntOfJson(get(l, "max_per_day", "null")),
     max_total   |-> OptIntOfJson(get(l, "max_total", "null"))]

\* The Config load_config builds from a document that has its required keys
load_config_value(raw) ==
    LET cr == TheDict(ConstraintsRaw(raw))
        wr == TheDict(WeightsRaw(raw))
        sr == TheDict(SolverRaw(raw))
    IN  [meta      |-> TheDict(MetaRaw(raw)),
         timeslots |-> [i \in DOMAIN raw.timeslots |->
                           [id |-> Str(raw.timeslots[i].id),
                            date |-> Str(raw.timeslots[i].date),
                            start |-> Str(raw.timeslots[i].start),
                            end |-> Str(raw.timeslots[i].end),
                            label |-> Str(get(raw.timeslots[i], "label", ""))]],
         lecturers |-> [i \in DOMAIN raw.lecturers |-> LoadLecturer(raw.lecturers[i])],
         students  |-> [i \in DOMAIN raw.students |->
                           [id |-> Str(raw.students[i].id),
                            name |-> Str(raw.students[i].name),
                            unavailable_slot_ids |->
                                get(raw.students[i], "unavailable_slot_ids", {})]],
         projects  |-> [i \in DOMAIN raw.projects |->
                           [id |-> Str(raw.projects[i].id),
                            title |-> Str(raw.projects[i].title),
                            student_ids |-> get(raw.projects[i], "student_ids", {}),
                            supervisor_lecturer_id |->
                                Str(get(raw.projects[i], "supervisor_lecturer_id", NoId))]],
         constraints |->
            [rooms |-> IntOfJson(get(cr, "rooms", "1")),
             panel_size |-> IntOfJson(get(cr, "panel_size", "2")),
             must_include_supervisor |->
                 BoolOfJson(get(cr, "must_include_supervisor", "true")),
             lunch_slot_ids |-> get(cr, "lunch_slot_ids", {}),
             weights |-> [span |-> IntOfJson(get(wr, "span", "1")),
                          workload_balance |-> IntOfJson(get(wr, "workload_balance", "10")),
                          lunch |-> IntOfJson(get(wr, "lunch", "3"))],
             solver |-> [max_time_in_seconds |->
                             FloatOfJson(get(sr, "max_time_in_seconds", "10.0")),
                         num_search_workers |->
                             IntOfJson(get(sr, "num_search_workers", "8"))]]]

\* The exception load_config raises on a document, "" if it returns
load_config_raises(raw) ==
    LET Missing(items, keys) ==
            \E i \in DOMAIN items : \E k \in keys : k \notin DOMAIN items[i]
    IN  IF MetaRaw(raw) = None THEN "ConfigError"
        ELSE IF \E k \in {"timeslots", "lecturers", "students", "projects"} :
                    k \notin DOMAIN raw
        THEN "ConfigError"
        ELSE IF ConstraintsRaw(raw) = None THEN "ConfigError"
        ELSE IF \/ Missing(raw.timeslots, {"id", "date", "start", "end"})
                \/ Missing(raw.lecturers, {"id", "name"})
                \/ Missing(raw.students, {"id", "name"})
                \/ Missing(raw.projects, {"id", "title"})
        THEN "ConfigError"
        ELSE IF WeightsRaw(raw) = None \/ SolverRaw(raw) = None THEN "ConfigError"
        ELSE IF \/ IntRaises(get(TheDict(ConstraintsRaw(raw)), "rooms", "1"))
                \/ IntRaises(get(TheDict(ConstraintsRaw(raw)), "panel_size", "2"))
        THEN "ValueError"
        ELSE IF validate_raises(load_config_value(raw)) THEN "ValueError"
        ELSE IF \/ _check_unique_ids_raises(load_config_value(raw).timeslots)
                \/ _check_unique_ids_raises(load_config_value(raw).lecturers)
                \/ _check_unique_ids_raises(load_config_value(raw).students)
                \/ _check_unique_ids_raises(load_config_value(raw).projects)
        THEN "ConfigError"
        ELSE ""

\* load_config(path) on the file written before
load_config ==
    /\ pc = "start"
    /\ doc # NoDoc
    /\ pc' = "done"
    /\ raised' = load_config_raises(doc)
    /\ loaded' = IF load_config_raises(doc) = "" THEN load_config_value(doc) ELSE NoConfig
    /\ UNCHANGED <<cfg, slice, result, level, doc, exit_code, index, uiVars>>

\* save_config(cfg, path): validate, then write the dictionary
save_config ==
    /\ pc = "start"
    /\ doc = NoDoc
    /\ IF validate_raises(cfg)
       THEN pc' = "done" /\ raised' = "ValueError" /\ doc' = doc
       ELSE pc' = pc /\ raised' = raised /\ doc' = to_dict(cfg)
    /\ UNCHANGED <<cfg, slice, result, level, loaded, exit_code, index, uiVars>>

\* ------------------------------------------------------------------------
\* The file between save and load, as tests/test_io.py rewrites it

MaxEdits == 1   \* rewrites of the saved file before it is read

\* raw[key] = val; del raw[key]
WithKey(obj, key, val) ==
    [k \in (DOMAIN obj) \cup {key} |-> IF k = key THEN val ELSE obj[k]]
WithoutKey(obj, key) == [k \in (DOMAIN obj) \ {key} |-> obj[k]]

\* What a rewrite can leave: a key set to null or removed, the solver
\* object replaced, a number written in another form
FileEdits(d) ==
    {WithKey(d, "meta", None), WithoutKey(d, "meta"),
     WithKey(d, "constraints", None), WithoutKey(d, "constraints"),
     WithoutKey(d, "projects")}
    \cup (IF get(d, "constraints", None) = None THEN {}
          ELSE LET cr == TheDict(d.constraints)
                   Put(key, val) == WithKey(d, "constraints", Some(WithKey(cr, key, val)))
               IN  {Put("solver", None), Put("weights", None),
                    WithKey(d, "constraints", Some(WithoutKey(cr, "solver"))),
                    Put("solver", Some([max_time_in_seconds |-> "5.0",
                                        num_search_workers |-> "4"])),
                    Put("solver", Some([num_workers |-> "2"])),
                    Put("solver", Some([num_workers |-> "2", num_search_workers |-> "4"])),
                    Put("rooms", "\"x\""), Put("rooms", "2.5"), Put("rooms", "\"2\""),
                    Put("must_include_supervisor", "\"false\"")})

edit_file ==
    /\ pc = "start"
    /\ doc # NoDoc
    /\ ops < MaxEdits
    /\ ops' = ops + 1
    /\ doc' \in FileEdits(doc)
    /\ UNCHANGED <<cfg, pc, slice, raised, result, level, loaded, exit_code, index, grid>>

\* ------------------------------------------------------------------------
\* cli.py

\* --solver: choices slice1, slice2, slice3
SolverChoicesCli == {"slice1", "slice2", "slice3"}

\* main(): load the file, precheck, solve, exit.  raised keeps the exception
\* solve ended with, which main catches.
main(s) ==
    /\ pc = "start"
    /\ IF doc = NoDoc \/ load_config_raises(doc) # ""
       THEN \* FileNotFoundError, ConfigError or ValueError: sys.exit(1)
            /\ exit_code' = 1
            /\ pc' = "done"
            /\ UNCHANGED <<cfg, slice, raised, result, level, loaded>>
       ELSE LET c == load_config_value(doc)
            IN  /\ loaded' = c
                /\ IF precheck_errors(c) # {}
                   THEN /\ exit_code' = 1
                        /\ pc' = "done"
                        /\ UNCHANGED <<cfg, slice, raised, result, level>>
                   ELSE /\ solve(c, <<Some(s)>>)
                        /\ exit_code' =
                               IF raised' # "" THEN 1
                               ELSE IF result'.status \in {"OPTIMAL", "FEASIBLE"} THEN 0
                               ELSE 2
    /\ UNCHANGED <<doc, index, uiVars>>

\* ------------------------------------------------------------------------
\* Configurations with every declared field, as a program builds them
\* before save_config (tests/test_io.py, the editor)

DeclaredConfig(c) ==
    \E T \in 0 .. MaxT, L \in 0 .. MaxL, P \in 0 .. 1, dup \in BOOLEAN,
       cap \in {None, Some(1)}, R \in 0 .. MaxR, must \in BOOLEAN,
       sp \in {SolverParams, WithNumWorkers(SolverParams, 1),
               [max_time_in_seconds |-> 5, num_search_workers |-> 4]} :
    \E sup \in {NoId} \cup {<<"L", i>> : i \in 1 .. (IF L > 0 THEN 1 ELSE 0)} :
        /\ dup => L >= 2
        /\ c = [meta |-> [title |-> "demo"],
                timeslots |-> [i \in 1 .. T |->
                    [id |-> <<"TS", i>>, date |-> 1, start |-> "09:00", end |-> "09:30",
                     label |-> IF i = 1 THEN "first" ELSE ""]],
                lecturers |-> [i \in 1 .. L |->
                    [id |-> <<"L", IF dup THEN 1 ELSE i>>, name |-> "Dr",
                     available_slot_ids |-> SlotIds(T),
                     max_per_day |-> IF i = 1 THEN cap ELSE None, max_total |-> None]],
                students |-> <<[id |-> <<"S", 1>>, name |-> "Student A",
                                unavailable_slot_ids |-> {}]>>,
                projects |-> [i \in 1 .. P |->
                    [id |-> <<"P", i>>, title |-> "Proj", student_ids |-> {<<"S", 1>>},
                     supervisor_lecturer_id |-> sup]],
                constraints |-> [rooms |-> R, panel_size |-> 1,
                                 must_include_supervisor |-> must,
                                 lunch_slot_ids |-> SlotIds(IF T > 0 THEN 1 ELSE 0),
                                 weights |-> DefaultWeights, solver |-> sp]]

InitIo ==
    /\ DeclaredConfig(cfg)
    /\ pc = "start"
    /\ slice = 0
    /\ raised = ""
    /\ result = NoResult
    /\ level = <<>>
    /\ Idle

NextIo ==
    \/ save_config
    \/ edit_file
    \/ load_config
    \/ \E s \in SolverChoicesCli : main(s)

SpecIo == InitIo /\ [][NextIo]_vars

\* ------------------------------------------------------------------------
\* Properties of the command-line driver and of the configuration file

MainDone == pc = "done" /\ exit_code # NoExit
LoadDone == pc = "done" /\ exit_code = NoExit /\ doc # NoDoc /\ slice = 0

\* C22: the driver exits with 0 exactly when the solve status is OPTIMAL or
\* FEASIBLE, with 2 exactly when it is INFEASIBLE, MODEL_INVALID or UNKNOWN,
\* and with 1 for a configuration-load or precheck error, in which case the
\* solver is never invoked.
C22_ExitCodes ==
    MainDone =>
        /\ exit_code = 0 <=>
               (slice # 0 /\ raised = "" /\ result.status \in {"OPTIMAL", "FEASIBLE"})
        /\ exit_code = 2 <=>
               (/\ slice # 0 /\ raised = ""
                /\ result.status \in {"INFEASIBLE", "MODEL_INVALID", "UNKNOWN"})
        /\ exit_code = 1 =>
               /\ slice = 0
               /\ \/ doc = NoDoc
                  \/ load_config_raises(doc) # ""
                  \/ precheck_errors(loaded) # {}

\* Constraints(): the defaults of the dataclass
DefaultConstraints ==
    [rooms |-> 1, panel_size |-> 2, must_include_supervisor |-> TRUE,
     lunch_slot_ids |-> {}, weights |-> DefaultWeights, solver |-> SolverParams]
NullOrAbsent(obj, key) == get(obj, key, None) = None
\* The document with the null values of meta, constraints and
\* constraints.solver removed
WithoutNulls(d) ==
    LET d1 == IF "meta" \in DOMAIN d /\ d.meta = None THEN WithoutKey(d, "meta") ELSE d
        d2 == IF "constraints" \in DOMAIN d1 /\ d1.constraints = None
              THEN WithoutKey(d1, "constraints") ELSE d1
    IN  IF "constraints" \in DOMAIN d2
           /\ "solver" \in DOMAIN TheDict(d2.constraints)
           /\ TheDict(d2.constraints).solver = None
        THEN WithKey(d2, "constraints", Some(WithoutKey(TheDict(d2.constraints), "solver")))
        ELSE d2

\* C23: load_config accepts a document in which meta, constraints or
\* constraints.solver is absent or null: it does not fail, and it yields an
\* empty meta mapping and the default constraint and solver values for the
\* absent or null key.
C23_NullOrAbsent ==
    (LoadDone /\ load_config_raises(WithoutNulls(doc)) = "") =>
        /\ raised = ""
        /\ NullOrAbsent(doc, "meta") => loaded.meta = EmptyDict
        /\ NullOrAbsent(doc, "constraints") => loaded.constraints = DefaultConstraints
        /\ (~NullOrAbsent(doc, "constraints")
            /\ NullOrAbsent(TheDict(doc.constraints), "solver")) =>
               loaded.constraints.solver = SolverParams

\* The worker count a document asks for
WorkersOf(d) ==
    LET sr == IF NullOrAbsent(d, "constraints")
                 \/ NullOrAbsent(TheDict(d.constraints), "solver")
              THEN EmptyDict ELSE TheDict(TheDict(d.constraints).solver)
    IN  IF "num_workers" \in DOMAIN sr THEN IntOfJson(sr.num_workers)
        ELSE IF "num_search_workers" \in DOMAIN sr THEN IntOfJson(sr.num_search_workers)
        ELSE 0

\* C24: after load_config the solver parameters expose num_workers: the
\* document's constraints.solver.num_workers if present, else its
\* num_search_workers if present, else 0; and this is the value solve reads.
C24_NumWorkers ==
    /\ (LoadDone /\ raised = "") =>
           /\ HasAttr(loaded.constraints.solver, "num_workers")
           /\ loaded.constraints.solver.num_workers = WorkersOf(doc)
    /\ MainDone => raised # "AttributeError"

\* Dataclass equality of two Constraints: field by field over the declared
\* fields
ConstraintsEq(a, b) ==
    /\ a.rooms = b.rooms
    /\ a.panel_size = b.panel_size
    /\ a.must_include_supervisor = b.must_include_supervisor
    /\ a.lunch_slot_ids = b.lunch_slot_ids
    /\ a.weights = b.weights
    /\ DeclaredSolver(a.solver) = DeclaredSolver(b.solver)
UniqueIds(c) ==
    /\ ~_check_unique_ids_raises(c.timeslots)
    /\ ~_check_unique_ids_raises(c.lecturers)
    /\ ~_check_unique_ids_raises(c.students)
    /\ ~_check_unique_ids_raises(c.projects)

\* C25: for every valid configuration with unique non-empty ids,
\* load_config applied to the file written by save_config returns a
\* configuration equal to the original in timeslots, lecturers, students,
\* projects and constraints, in the same order.
C25_RoundTrip ==
    (LoadDone /\ ops = 0 /\ UniqueIds(cfg)) =>
        /\ raised = ""
        /\ loaded.timeslots = cfg.timeslots
        /\ loaded.lecturers = cfg.lecturers
        /\ loaded.students = cfg.students
        /\ loaded.projects = cfg.projects
        /\ ConstraintsEq(loaded.constraints, cfg.constraints)
C25_Witness ==
    /\ LoadDone /\ ops = 0 /\ raised = ""
    /\ Len(cfg.timeslots) = 2 /\ Len(cfg.lecturers) = 2 /\ Len(cfg.projects) = 1
    /\ cfg.lecturers[1].max_per_day = Some(1)
    /\ cfg.constraints.solver.num_search_workers = 4
    /\ cfg.constraints.rooms = 2
    /\ loaded.lecturers = cfg.lecturers


\* ------------------------------------------------------------------------
\* Properties of precheck and of the nesting of the slices

Prechecked == pc = "done" /\ raised = "PrecheckError"

\* C27: every error of precheck means the configuration is infeasible: when
\* precheck returns a non-empty error list, no assignment satisfies the
\* hard constraints the solver posts for the configuration (stated for
\* the configurations with a project).
C27_ErrorsMeanInfeasible ==
    (Prechecked /\ slice = 2 /\ NumP(cfg) > 0) => PanelValuations(cfg) = {}

\* The slot/room part of every assignment of slice 2 is one of slice 1
Slice2WithinSlice1 ==
    \A v \in Slice2Valuations(cfg) :
        [x |-> v.x, last_t |-> v.last_t] \in Slice1Valuations(cfg)
\* Slice 1 has no assignment, and the call went past the precheck and the
\* read of num_workers
Slice1Infeasible(n) ==
    /\ pc = "done" /\ slice = n
    /\ raised \notin {"PrecheckError", "AttributeError"}
    /\ Slice1Valuations(cfg) = {}
C28_Slice2 ==
    /\ (pc = "done" /\ slice = 2 /\ ~Prechecked) => Slice2WithinSlice1
    /\ Slice1Infeasible(2) => (Returned /\ ~Scheduled)
C28_Slice3 ==
    /\ (Returned /\ slice = 3) => (Slice3Valuations(cfg) = {} <=> Slice2Valuations(cfg) = {})
    /\ Slice1Infeasible(3) => (Returned /\ ~Scheduled)

\* C28: the slices are nested relaxations: slice 3 admits an assignment of
\* its hard constraints iff slice 2 does, the slot/room part of every
\* assignment of slice 2 satisfies slice 1, and so a configuration that is
\* INFEASIBLE at slice 1 gets a result without a schedule from slices 2
\* and 3.
C28_NestedSlices == C28_Slice2 /\ C28_Slice3


\* ------------------------------------------------------------------------
\* precheck.py: build_index on a configuration held in memory

\* idx = build_index(cfg): four dict comprehensions, which raise nothing
BuildIndex ==
    /\ pc = "start"
    /\ pc' = "done"
    /\ index' = build_index(cfg)
    /\ raised' = ""
    /\ UNCHANGED <<cfg, slice, result, level, ioVars, uiVars>>

\* Configurations as a caller builds them, a repeated lecturer id included
InitIndex == InitIo
NextIndex == BuildIndex
SpecIndex == InitIndex /\ [][NextIndex]_vars

\* m maps the ids of items one-to-one onto the positions 0 .. n-1
IsBijection(m, items) ==
    /\ DOMAIN m = IdsOf(items)
    /\ {m[id] : id \in DOMAIN m} = Range(Len(items))
    /\ \A a, b \in DOMAIN m : m[a] = m[b] => a = b

\* C26: build_index returns four bijections between the ids of a collection
\* and its positions 0 .. n-1, or fails with a duplicate-id error; it never
\* returns a map that is not a bijection.
C26_IndexBijections ==
    pc = "done" =>
        \/ raised = "DuplicateId" /\ index = NoIndex
        \/ /\ index # NoIndex
           /\ IsBijection(index.slot_id_to_idx, cfg.timeslots)
           /\ IsBijection(index.lecturer_id_to_idx, cfg.lecturers)
           /\ IsBijection(index.student_id_to_idx, cfg.students)
           /\ IsBijection(index.project_id_to_idx, cfg.projects)


\* ------------------------------------------------------------------------
\* ui_tk: the editor (app.py, tabs/entities_tab.py, tabs/availability_tab.py,
\* tabs/constraints_tab.py)

MaxS   == 2     \* students in the editor
MaxOps == 2     \* editor events in a run

\* AvailabilityTab.refresh: _grid[(l_i, t_i)] = slot.id in avail_sets[l_i].
\* The grid is kept as the set of its True cells: every read of it is
\* self._grid.get(key, False).
refresh(c) ==
    {w \in Range(NumL(c)) \X Range(NumT(c)) :
        At(c.timeslots, w[2]).id \in At(c.lecturers, w[1]).available_slot_ids}

\* AvailabilityTab.flush_to_config: lec.available_slot_ids = [timeslots[t_i].id
\* for t_i in range(T) if self._grid.get((l_i, t_i), False)]
flush_to_config(c, g) ==
    [c EXCEPT !.lecturers =
        [i \in DOMAIN c.lecturers |->
            [c.lecturers[i] EXCEPT !.available_slot_ids =
                {At(c.timeslots, t).id : t \in {u \in Range(NumT(c)) : <<i - 1, u>> \in g}}]]]

\* ConstraintsTab.write_back. The widgets hold what ConstraintsTab.refresh
\* put there when the file was opened; refresh stops at its read of
\* c.solver.num_workers, before it fills the lunch list box, so the list box
\* has no selection and the worker box holds its initial "0".
write_back(c) ==
    LET Max2(a, b) == IF a > b THEN a ELSE b
        k == c.constraints
    IN  [c EXCEPT !.constraints =
            [k EXCEPT !.rooms = Max2(1, k.rooms),
                      !.panel_size = Max2(1, k.panel_size),
                      !.lunch_slot_ids = {},
                      !.weights = [span |-> Max2(0, k.weights.span),
                                   workload_balance |-> Max2(0, k.weights.workload_balance),
                                   lunch |-> Max2(0, k.weights.lunch)],
                      !.solver = WithNumWorkers(k.solver, 0)]]

\* An editor event: the configuration and the grid change, nothing else
Event(c, g) ==
    /\ pc = "start"
    /\ ops < MaxOps
    /\ ops' = ops + 1
    /\ cfg' = c
    /\ grid' = g
    /\ UNCHANGED <<pc, slice, raised, result, level, ioVars, index>>

\* The ids a user types
LecturerIds == {<<"L", i>> : i \in 1 .. MaxL}
StudentIds  == {<<"S", i>> : i \in 1 .. MaxS}
ProjectIds  == {<<"P", i>> : i \in 1 .. MaxP}

\* EntitiesTab._add_lecturer: Lecturer(id=lid, name=name) appended unless the
\* id exists
_add_lecturer(lid) ==
    /\ lid \notin IdsOf(cfg.lecturers)
    /\ Event([cfg EXCEPT !.lecturers =
                 Append(@, [id |-> lid, available_slot_ids |-> {}, max_per_day |-> None])],
             grid)

\* EntitiesTab._del_lecturer: the lecturer removed, the projects they
\* supervise left without supervisor; _on_change is App._mark_dirty, which
\* sets the status text
_del_lecturer(lid) ==
    LET Keep(l) == l.id # lid
    IN  /\ lid \in IdsOf(cfg.lecturers)
        /\ Event([cfg EXCEPT
                     !.lecturers = SelectSeq(@, Keep),
                     !.projects = [i \in DOMAIN @ |->
                         IF @[i].supervisor_lecturer_id = lid
                         THEN [@[i] EXCEPT !.supervisor_lecturer_id = NoId] ELSE @[i]]],
                 grid)

\* EntitiesTab._edit_max_per_day: int(val) if val.strip().isdigit() else None
_edit_max_per_day(lid, val) ==
    /\ lid \in IdsOf(cfg.lecturers)
    /\ Event([cfg EXCEPT !.lecturers = [i \in DOMAIN @ |->
                 IF @[i].id = lid THEN [@[i] EXCEPT !.max_per_day = val] ELSE @[i]]],
             grid)

\* EntitiesTab._add_student: needs a project; the student is appended and
\* added to the project picked
_add_student(sid, pid) ==
    /\ cfg.projects # <<>>
    /\ sid \notin IdsOf(cfg.students)
    /\ pid \in IdsOf(cfg.projects)
    /\ Event([cfg EXCEPT
                 !.students = Append(@, [id |-> sid, unavailable_slot_ids |-> {}]),
                 !.projects = [i \in DOMAIN @ |->
                     IF @[i].id = pid
                     THEN [@[i] EXCEPT !.student_ids = @ \cup {sid}] ELSE @[i]]],
             grid)

\* EntitiesTab._del_student: the student removed, and their id from every
\* project
_del_student(sid) ==
    LET Keep(st) == st.id # sid
    IN  /\ sid \in IdsOf(cfg.students)
        /\ Event([cfg EXCEPT
                     !.students = SelectSeq(@, Keep),
                     !.projects = [i \in DOMAIN @ |->
                         [@[i] EXCEPT !.student_ids = @ \ {sid}]]],
                 grid)

\* EntitiesTab._add_project: Project(id=pid, title=title) appended
_add_project(pid) ==
    /\ pid \notin IdsOf(cfg.projects)
    /\ Event([cfg EXCEPT !.projects =
                 Append(@, [id |-> pid, student_ids |-> {},
                            supervisor_lecturer_id |-> NoId])],
             grid)

\* EntitiesTab._del_project
_del_project(pid) ==
    LET Keep(pr) == pr.id # pid
    IN  /\ pid \in IdsOf(cfg.projects)
        /\ Event([cfg EXCEPT !.projects = SelectSeq(@, Keep)], grid)

\* EntitiesTab._set_supervisor: a lecturer picked among those that exist
_set_supervisor(pid, lid) ==
    /\ pid \in IdsOf(cfg.projects)
    /\ lid \in IdsOf(cfg.lecturers)
    /\ Event([cfg EXCEPT !.projects = [i \in DOMAIN @ |->
                 IF @[i].id = pid
                 THEN [@[i] EXCEPT !.supervisor_lecturer_id = lid] ELSE @[i]]],
             grid)

\* EntitiesTab._add_slot: TimeSlot(id=sid, date=date, ...) appended unless
\* the id exists
_add_slot(sid, date) ==
    /\ sid \notin IdsOf(cfg.timeslots)
    /\ Event([cfg EXCEPT !.timeslots = Append(@, [id |-> sid, date |-> date])], grid)

\* EntitiesTab._del_slot: the slot removed, and its id from the lecturers'
\* available_slot_ids and from lunch_slot_ids
_del_slot(sid) ==
    LET Keep(ts) == ts.id # sid
    IN  /\ sid \in IdsOf(cfg.timeslots)
        /\ Event([cfg EXCEPT
                     !.timeslots = SelectSeq(@, Keep),
                     !.lecturers = [i \in DOMAIN @ |->
                         [@[i] EXCEPT !.available_slot_ids = @ \ {sid}]],
                     !.constraints.lunch_slot_ids = @ \ {sid}],
                 grid)

\* The first id prefix + counter, from counter upwards, that is not taken
RECURSIVE FreshSlot(_, _)
FreshSlot(taken, counter) ==
    IF <<"TS", counter>> \in taken THEN FreshSlot(taken, counter + 1) ELSE counter

\* do_generate: n slots on one date, each with the next free id counted
\* from len(timeslots) + 1
RECURSIVE Generated(_, _, _, _)
Generated(slots, counter, date, n) ==
    IF n = 0 THEN slots
    ELSE LET k == FreshSlot(IdsOf(slots), counter)
         IN  Generated(Append(slots, [id |-> <<"TS", k>>, date |-> date]), k + 1, date, n - 1)

\* EntitiesTab._generate_slots
_generate_slots(date, n) ==
    /\ Len(cfg.timeslots) + n <= MaxT
    /\ Event([cfg EXCEPT !.timeslots = Generated(@, Len(@) + 1, date, n)], grid)

\* AvailabilityTab._on_click: the cell under the pointer toggled
_on_click(l_i, t_i) ==
    /\ l_i \in Range(NumL(cfg))
    /\ t_i \in Range(NumT(cfg))
    /\ Event(cfg, IF <<l_i, t_i>> \in grid THEN grid \ {<<l_i, t_i>>}
                  ELSE grid \cup {<<l_i, t_i>>})

\* App._flush_all, the first step of on_save and of on_run_solver:
\* availability.flush_to_config() then constraints.write_back(cfg)
_flush_all ==
    /\ cfg # NoConfig
    /\ Event(write_back(flush_to_config(cfg, grid)), grid)

\* A file as on_open loads it: unique ids, every reference valid
OpenedConfig(c) ==
    \E T \in 0 .. MaxT, L \in 0 .. MaxL, P \in 0 .. 1 :
    \E av \in [1 .. L -> SUBSET SlotIds(T)],
       un \in SUBSET SlotIds(IF T > 0 THEN 1 ELSE 0),
       lunch \in SUBSET SlotIds(IF T > 0 THEN 1 ELSE 0),
       sup \in {NoId} \cup {<<"L", i>> : i \in 1 .. L} :
        c = MkConfig([i \in 1 .. T |-> [id |-> <<"TS", i>>, date |-> 1]],
                     [i \in 1 .. L |-> [id |-> <<"L", i>>, available_slot_ids |-> av[i],
                                         max_per_day |-> None]],
                     <<[id |-> <<"S", 1>>, unavailable_slot_ids |-> un]>>,
                     [i \in 1 .. P |-> [id |-> <<"P", i>>, student_ids |-> {<<"S", 1>>},
                                         supervisor_lecturer_id |-> sup]],
                     1, 1, FALSE, lunch, DefaultWeights, SolverParams)

\* App.on_open: the configuration loaded and the tabs refreshed
InitUi ==
    /\ OpenedConfig(cfg)
    /\ grid = refresh(cfg)
    /\ ops = 0
    /\ pc = "start"
    /\ slice = 0
    /\ raised = ""
    /\ result = NoResult
    /\ level = <<>>
    /\ doc = NoDoc
    /\ loaded = NoConfig
    /\ exit_code = NoExit
    /\ index = NoIndex

NextUi ==
    \/ \E lid \in LecturerIds : _add_lecturer(lid)
    \/ \E lid \in LecturerIds : _del_lecturer(lid)
    \/ \E lid \in LecturerIds, val \in {None, Some(1)} : _edit_max_per_day(lid, val)
    \/ \E sid \in StudentIds, pid \in ProjectIds : _add_student(sid, pid)
    \/ \E sid \in StudentIds : _del_student(sid)
    \/ \E pid \in ProjectIds : _add_project(pid)
    \/ \E pid \in ProjectIds : _del_project(pid)
    \/ \E pid \in ProjectIds, lid \in LecturerIds : _set_supervisor(pid, lid)
    \/ \E sid \in SlotIds(MaxT) : _add_slot(sid, 1)
    \/ \E sid \in SlotIds(MaxT + 1) : _del_slot(sid)
    \/ \E n \in 1 .. MaxT : _generate_slots(1, n)
    \/ \E l_i \in Range(MaxL), t_i \in Range(MaxT) : _on_click(l_i, t_i)
    \/ _flush_all

SpecUi == InitUi /\ [][NextUi]_vars

\* ------------------------------------------------------------------------
\* Properties of the editor

\* The lecturer with the given id in a configuration
LecturerOf(c, lid) == CHOOSE l \in {c.lecturers[i] : i \in DOMAIN c.lecturers} : l.id = lid
Deletion ==
    \/ \E lid \in LecturerIds : _del_lecturer(lid)
    \/ \E sid \in SlotIds(MaxT + 1) : _del_slot(sid)
\* What a flush writes for every lecturer left after the step is what a
\* flush before the step wrote for them, on the slots that are left
FlushKeepsRows ==
    LET before == flush_to_config(cfg, grid)
        after  == flush_to_config(cfg', grid')
    IN  \A i \in DOMAIN after.lecturers :
            after.lecturers[i].available_slot_ids =
                LecturerOf(before, after.lecturers[i].id).available_slot_ids
                    \cap IdsOf(after.timeslots)

\* C29: after a lecturer or a timeslot is deleted in the Entities tab and
\* the grid is flushed, every remaining lecturer's available slots are those
\* of before the deletion, restricted to the surviving slots.
C29_FlushAfterDelete == [][Deletion => FlushKeepsRows]_vars

\* Every reference of a configuration names an entity that exists
RefsValid(c) ==
    /\ \A i \in DOMAIN c.lecturers :
           c.lecturers[i].available_slot_ids \subseteq IdsOf(c.timeslots)
    /\ \A i \in DOMAIN c.students :
           c.students[i].unavailable_slot_ids \subseteq IdsOf(c.timeslots)
    /\ c.constraints.lunch_slot_ids \subseteq IdsOf(c.timeslots)
    /\ \A i \in DOMAIN c.projects :
           /\ c.projects[i].student_ids \subseteq IdsOf(c.students)
           /\ c.projects[i].supervisor_lecturer_id \in {NoId} \cup IdsOf(c.lecturers)

\* C30: from a loaded configuration in which every reference is valid,
\* after any sequence of Entities-tab operations every slot id in
\* available_slot_ids, unavailable_slot_ids and lunch_slot_ids, every student
\* id in a project and every supervisor id names an existing entity.
C30_ReferencesValid == RefsValid(cfg)

============================================================================
